---- MODULE Spec2Model ----
(***************************************************************************)
(* The query pipeline of the supply-chain assistant:                       *)
(*   SupplyChainAgent.handle_query      src/src/agents/supply_chain_agent.py *)
(*   SupplyChainDB.query and helpers    src/src/models/query_translator.py *)
(*   DatabaseManager.__init__           src/src/database/connection.py     *)
(*   the page's rerun                   src/app.py                         *)
(*                                                                         *)
(* Text is a sequence of one-character strings, so that lower(), strip()   *)
(* and the `in` substring test are computed character by character.        *)
(*                                                                         *)
(* The agent calls self.translator.translate_query(user_query, limit,      *)
(* offset) on a class OllamaQueryTranslator that query_translator.py does  *)
(* not define; the only translator that module holds is SupplyChainDB,     *)
(* whose query(natural_query) takes neither limit nor offset.  The model   *)
(* binds the call to SupplyChainDB.query (see translate_query).            *)
(***************************************************************************)
EXTENDS Integers, Sequences, FiniteSets, TLC

VARIABLES
  store,        \* the SQLite file (see "the store")
  req,          \* the last request handled: text, limit, offset
  reply,        \* what ollama.chat did in that request
  translation,  \* what translate_query returned in that request
  resp,         \* what handle_query returned, or that it raised
  calls,        \* the collaborators that request reached, in order
  unclosed,     \* connections that request opened and did not close
  before,       \* the store as that request found it
  prompt,       \* the prompt that request sent to ollama.chat, if any
  first         \* on a rerun: what the run it repeats found and did

vars == <<store, req, reply, translation, resp, calls, unclosed, before,
          prompt, first>>

\* ------------------------------------------------------------------ bounds
\* Rows the table may hold when the agent is constructed.
MaxRows == 3
\* Largest limit a request carries (limit is 1..MaxLimit).
MaxLimit == 2
\* Largest offset a request carries (offset is 0..MaxOffset).
MaxOffset == 2

\* -------------------------------------------------------------------- text
UpperChars == <<"A","B","C","D","E","F","G","H","I","J","K","L","M",
                "N","O","P","Q","R","S","T","U","V","W","X","Y","Z">>
LowerChars == <<"a","b","c","d","e","f","g","h","i","j","k","l","m",
                "n","o","p","q","r","s","t","u","v","w","x","y","z">>

\* str.lower() on one character.
LowerChar(c) ==
  IF \E k \in 1..26 : UpperChars[k] = c
  THEN LowerChars[CHOOSE k \in 1..26 : UpperChars[k] = c]
  ELSE c

\* str.lower()
lower(s) == CHOOSE r \in {[i \in 1..Len(t) |-> LowerChar(t[i])] : t \in {s}} : TRUE

\* Python's `f in s` for strings: f occurs in s as a contiguous substring.
In(f, s) ==
  \E t \in {s} : \E g \in {f} :
    \E i \in 1..(Len(t) - Len(g) + 1) : SubSeq(t, i, i + Len(g) - 1) = g

\* The characters str.strip() removes (those the model's texts can hold).
Whitespace == {" ", "\n", "\t"}

RECURSIVE lstrip(_, _)
lstrip(s, chars) ==
  CHOOSE r \in
    { IF t # <<>> /\ Head(t) \in chars THEN lstrip(Tail(t), chars) ELSE t :
      t \in {s} } : TRUE

RECURSIVE rstrip(_, _)
rstrip(s, chars) ==
  CHOOSE r \in
    { IF t # <<>> /\ t[Len(t)] \in chars
      THEN rstrip(SubSeq(t, 1, Len(t) - 1), chars)
      ELSE t :
      t \in {s} } : TRUE

\* str.strip(chars): every leading and every trailing character of chars.
strip(s, chars) == rstrip(lstrip(s, chars), chars)

\* Words of a text, split at whitespace (the store's tokenizer).
RECURSIVE Words(_)
Words(s) ==
  CHOOSE r \in
    { IF t = <<>> THEN <<>>
      ELSE LET gaps == {i \in 1..Len(t) : t[i] \in Whitespace}
               n == IF gaps = {} THEN Len(t)
                    ELSE (CHOOSE i \in gaps : \A j \in gaps : i <= j) - 1
           IN <<SubSeq(t, 1, n)>> \o Words(SubSeq(t, n + 1, Len(t))) :
      t \in {lstrip(s, Whitespace)} } : TRUE

\* ---------------------------------------------------------------- literals
SP == <<" ">>
NL == <<"\n">>
SEMI == <<";">>
TableName ==
  <<"s","u","p","p","l","y","_","c","h","a","i","n","_","o","r","d","e","r","s">>
W_SELECT == <<"S","E","L","E","C","T">>
W_STAR == <<"*">>
W_FROM == <<"F","R","O","M">>
W_LIMIT == <<"L","I","M","I","T">>
W_OFFSET == <<"O","F","F","S","E","T">>
W_DROP == <<"D","R","O","P">>
W_TABLE == <<"T","A","B","L","E">>
W_ALTER == <<"A","L","T","E","R">>
W_ADD == <<"A","D","D">>
W_COLUMN == <<"C","O","L","U","M","N">>
W_X == <<"x">>

Digits == <<"0","1","2","3","4","5","6","7","8","9">>
\* str(n) for a one-digit n.
Digit(n) == <<Digits[n + 1]>>
IsDigit(w) == Len(w) = 1 /\ \E d \in 1..10 : Digits[d] = w[1]
\* int(w) for a one-digit w.
DigitValue(w) == (CHOOSE d \in 1..10 : Digits[d] = w[1]) - 1

\* ------------------------------------------------------------- environment
\* The question texts a caller submits.
DrawMeAPicture ==
  <<"d","r","a","w"," ","m","e"," ","a"," ","p","i","c","t","u","r","e">>
ShowOrders == <<"S","h","o","w"," ","o","r","d","e","r","s">>
STOCK == <<"S","T","O","C","K">>
Texts == {DrawMeAPicture, ShowOrders, STOCK}

Say(content) == [ok |-> TRUE, content |-> content]
ChatRaises == [ok |-> FALSE, content |-> <<>>]
NoReply == [ok |-> FALSE, content |-> <<"-">>]

SelectAll == W_SELECT \o SP \o W_STAR \o SP \o W_FROM \o SP \o TableName
SelectPage(limit, offset) ==
  SelectAll \o SP \o W_LIMIT \o SP \o Digit(limit)
            \o SP \o W_OFFSET \o SP \o Digit(offset)
DropTable(gap) == W_DROP \o gap \o W_TABLE \o SP \o TableName
AddColumn ==
  W_ALTER \o SP \o W_TABLE \o SP \o TableName \o SP \o W_ADD \o SP
          \o W_COLUMN \o SP \o W_X
\* A read of one column whose name holds a forbidden verb.
SelectLastUpdate ==
  W_SELECT \o SP \o <<"l","a","s","t","_","u","p","d","a","t","e">> \o SP
           \o W_FROM \o SP \o TableName

\* What ollama.chat may do for a request: the texts a model may answer with
\* (the statement asked for, with or without the page clause, with a
\* terminator or several, destructive statements, a column whose name holds
\* a verb, commentary, nothing at all), or a failure.
Replies(limit, offset) == {
  Say(SelectAll),
  Say(SelectPage(limit, offset)),
  Say(SP \o SelectAll \o SEMI \o NL),
  Say(SelectAll \o SP \o <<"-","-">>),
  Say(DropTable(SP)),
  Say(DropTable(NL)),
  Say(AddColumn),
  Say(<<"S","u","r","e","!">>),
  Say(SelectLastUpdate),
  Say(SEMI \o SelectAll \o SEMI \o SEMI),
  Say(<<>>),
  ChatRaises }

\* ------------------------------------------------------- domain validation
\* self.supply_chain_keywords
supply_chain_keywords == {
  <<"o","r","d","e","r">>,
  <<"d","e","l","i","v","e","r","y">>,
  <<"p","r","o","d","u","c","t">>,
  <<"s","u","p","p","l","i","e","r">>,
  <<"i","n","v","e","n","t","o","r","y">>,
  <<"s","h","i","p","m","e","n","t">>,
  <<"w","a","r","e","h","o","u","s","e">>,
  <<"c","u","s","t","o","m","e","r">>,
  <<"l","o","g","i","s","t","i","c","s">>,
  <<"s","t","o","c","k">>,
  <<"s","u","p","p","l","y">>,
  <<"c","h","a","i","n">>,
  <<"t","r","a","n","s","p","o","r","t">>,
  <<"s","h","i","p","p","i","n","g">>,
  <<"p","u","r","c","h","a","s","e">> }

\* A gate that lets every text through (an empty keyword is in every text).
_validate_query_any(user_query) == TRUE

\* SupplyChainAgent._validate_query
_validate_query(user_query) ==
  LET query_lower == lower(user_query) IN
  \E keyword \in supply_chain_keywords : In(keyword, query_lower)

\* ------------------------------------------------------ safety validation
\* forbidden in SupplyChainDB._validate_sql
forbidden == {
  <<";">>, <<"-","-">>, <<"/","*">>, <<"*","/">>,
  <<"d","r","o","p"," ">>, <<"d","e","l","e","t","e"," ">>,
  <<"u","p","d","a","t","e"," ">>, <<"i","n","s","e","r","t"," ">> }

\* SupplyChainDB._validate_sql
_validate_sql(sql) == ~ \E f \in forbidden : In(f, lower(sql))

\* ------------------------------------------------------------------ tables
\* The text functions above, computed once for every text of the model
\* rather than at every step.  Tabulate forces the function's value.
Tabulate(f) == CHOOSE g \in {f} : g = g

\* response['message']['content'].strip().strip(';')
PostProcess(content) == strip(strip(content, Whitespace), {";"})

Contents ==
  UNION { {a.content : a \in Replies(limit, offset)} :
          limit \in 1..MaxLimit, offset \in 0..MaxOffset }
Statements == {PostProcess(content) : content \in Contents}

InDomainOf == Tabulate([text \in Texts |-> _validate_query(text)])
StatementOf == Tabulate([content \in Contents |-> PostProcess(content)])
SafeOf == Tabulate([sql \in Statements |-> _validate_sql(sql)])
WordsOf == Tabulate([sql \in Statements |-> Words(lower(sql))])

\* -------------------------------------------------------------- the store
\* The SQLite file: whether supply_chain_orders exists, whether it carries the
\* added column x, and its rows (ids 1..n in rowid order).
Null == 0
Columns(db) == IF db.extra THEN <<"id", "x">> ELSE <<"id">>
\* dict(zip(columns, row)): one row as (key, value) pairs in column order.
RowDict(db, i) ==
  IF db.extra THEN << <<"id", i>>, <<"x", Null>> >> ELSE << <<"id", i>> >>
\* Rows lo..hi of the table, in rowid order.
RowsOf(db, lo, hi) ==
  [k \in 1..(IF hi >= lo THEN hi - lo + 1 ELSE 0) |->
     RowDict(db, lo + k - 1)]
Min(a, b) == IF a < b THEN a ELSE b

\* What cursor.execute(sql) does to the store and leaves in the cursor:
\*   ok          no exception was raised
\*   description cursor.description is not None (the statement returns rows)
\*   rows        cursor.fetchall()
\*   store       the file afterwards (DDL runs outside any transaction and
\*               is durable at once; nothing here calls commit or rollback)
SqlError(db) ==
  [ok |-> FALSE, description |-> FALSE, rows |-> <<>>, store |-> db]
\* SELECT * FROM supply_chain_orders [LIMIT d [OFFSET d]], as words.
IsSelect(w) ==
  /\ Len(w) \in {4, 6, 8}
  /\ SubSeq(w, 1, 3) = <<lower(W_SELECT), W_STAR, lower(W_FROM)>>
  /\ w[4] = lower(TableName)
  /\ Len(w) >= 6 => (w[5] = lower(W_LIMIT) /\ IsDigit(w[6]))
  /\ Len(w) = 8 => (w[7] = lower(W_OFFSET) /\ IsDigit(w[8]))
\* The rows a SELECT of words w returns: its window of the table.
Window(db, w) ==
  RowsOf(db, (IF Len(w) = 8 THEN DigitValue(w[8]) ELSE 0) + 1,
         Min((IF Len(w) = 8 THEN DigitValue(w[8]) ELSE 0)
               + (IF Len(w) >= 6 THEN DigitValue(w[6]) ELSE db.n),
             db.n))
\* The statement of words w, run on db.
Run(db, w) ==
  IF w = <<>> THEN
    \* an empty statement runs nothing and raises nothing
    [ok |-> TRUE, description |-> FALSE, rows |-> <<>>, store |-> db]
  ELSE IF IsSelect(w) THEN
    IF db.exists
    THEN [ok |-> TRUE, description |-> TRUE, rows |-> Window(db, w),
          store |-> db]
    ELSE SqlError(db)
  ELSE IF w = <<lower(W_DROP), lower(W_TABLE), lower(TableName)>> THEN
    IF db.exists
    THEN [ok |-> TRUE, description |-> FALSE, rows |-> <<>>,
          store |-> [exists |-> FALSE, extra |-> FALSE, n |-> 0]]
    ELSE SqlError(db)
  ELSE IF w = <<lower(W_ALTER), lower(W_TABLE), lower(TableName),
                lower(W_ADD), lower(W_COLUMN), W_X>> THEN
    IF db.exists /\ ~db.extra
    THEN [ok |-> TRUE, description |-> FALSE, rows |-> <<>>,
          store |-> [db EXCEPT !.extra = TRUE]]
    ELSE SqlError(db)
  ELSE SqlError(db)
SqlExecute(db, sql) == Run(db, WordsOf[sql])

\* ------------------------------------------------------ translation stages
\* str(e) of the exceptions the stages raise.
NoSuchTable == "no such table: supply_chain_orders"
ChatFailed == "ollama.chat failed"
SafetyCheckFailed == "Query failed safety check"
StoreRejected == "sqlite3.OperationalError"
NotIterable == "'NoneType' object is not iterable"
LenOfNone == "object of type 'NoneType' has no len()"

\* A schema snapshot whose sample rows are not the same ones on a later call
\* as on the first (as ORDER BY RANDOM() would make them).
_get_schema_unstable(db) ==
  IF ~db.exists
  THEN [ok |-> FALSE, columns |-> <<>>, samples |-> <<>>, unclosed |-> 1]
  ELSE [ok |-> TRUE, columns |-> Columns(db),
        samples |-> IF resp.status = "none"
                    THEN RowsOf(db, 1, Min(3, db.n))
                    ELSE RowsOf(db, Min(1, db.n) + 1, Min(Min(1, db.n) + 3, db.n)),
        unclosed |-> 0]

\* SupplyChainDB._get_schema: PRAGMA table_info answers with no rows for a
\* missing table, the SELECT ... LIMIT 3 then raises and conn.close() is not
\* reached.
_get_schema(db) ==
  IF ~db.exists
  THEN [ok |-> FALSE, columns |-> <<>>, samples |-> <<>>, unclosed |-> 1]
  ELSE [ok |-> TRUE, columns |-> Columns(db),
        samples |-> RowsOf(db, 1, Min(3, db.n)),
        unclosed |-> 0]

\* SupplyChainDB._create_prompt: the template's variable parts.
_create_prompt(natural_query, schema) ==
  [query |-> natural_query, columns |-> schema.columns,
   samples |-> schema.samples]

\* _execute_sql after cursor.execute(sql) did r: the rows are read off the
\* cursor and the connection is closed, unless execute raised or
\* cursor.description is None.
Fetch(r) ==
  IF ~r.ok
  THEN [raised |-> StoreRejected, results |-> <<>>, store |-> r.store,
        executed |-> TRUE, unclosed |-> 1]
  ELSE IF ~r.description
  THEN [raised |-> NotIterable, results |-> <<>>, store |-> r.store,
        executed |-> TRUE, unclosed |-> 1]
  ELSE [raised |-> "", results |-> r.rows, store |-> r.store,
        executed |-> TRUE, unclosed |-> 0]

\* An _execute_sql that runs the statement without the safety check.
_execute_sql_unchecked(db, sql) == Fetch(SqlExecute(db, sql))

\* SupplyChainDB._execute_sql.  raised is "" when the rows are returned;
\* executed says whether cursor.execute(sql) was called; unclosed counts the
\* connections opened and not closed.
_execute_sql(db, sql) ==
  IF ~SafeOf[sql]
  THEN [raised |-> SafetyCheckFailed, results |-> <<>>, store |-> db,
        executed |-> FALSE, unclosed |-> 0]
  ELSE Fetch(SqlExecute(db, sql))

\* The dict query() returns from its except clause: results and query None.
Failed(error) ==
  [error |-> error, query |-> <<>>, results |-> <<>>, isNone |-> TRUE]

\* The collaborators query() reached when _execute_sql did x.
Made(x) ==
  IF x.executed THEN <<"schema", "chat", "validate", "execute">>
  ELSE <<"schema", "chat", "validate">>

\* query() from `results = self._execute_sql(sql)` on: x is what it did.
query_from_rows(p, sql, x) ==
  IF x.raised # ""
  THEN [translation |-> Failed(x.raised), store |-> x.store,
        calls |-> Made(x), unclosed |-> x.unclosed, prompt |-> <<p>>]
  ELSE [translation |-> [error |-> "", query |-> sql, results |-> x.results,
                         isNone |-> FALSE],
        store |-> x.store, calls |-> Made(x), unclosed |-> 0,
        prompt |-> <<p>>]

\* query() from `response = ollama.chat(...)` on: p is the prompt.
query_from_prompt(db, answer, p) ==
  IF ~answer.ok
  THEN [translation |-> Failed(ChatFailed), store |-> db,
        calls |-> <<"schema", "chat">>, unclosed |-> 0,
        prompt |-> <<p>>]
  ELSE query_from_rows(p, StatementOf[answer.content],
                       _execute_sql(db, StatementOf[answer.content]))

\* query() from `prompt = self._create_prompt(...)` on: schema is what
\* _get_schema did.
query_from_schema(db, natural_query, answer, schema) ==
  IF ~schema.ok
  THEN [translation |-> Failed(NoSuchTable), store |-> db,
        calls |-> <<"schema">>, unclosed |-> schema.unclosed,
        prompt |-> <<>>]
  ELSE query_from_prompt(db, answer, _create_prompt(natural_query, schema))

\* SupplyChainDB.query.  answer is what ollama.chat does when called with the
\* prompt: [ok |-> FALSE] raises, [ok |-> TRUE, content |-> text] answers.
\* calls lists the collaborators reached, in order.
query(db, natural_query, answer) ==
  query_from_schema(db, natural_query, answer, _get_schema(db))

\* self.translator.translate_query(user_query, limit=limit, offset=offset):
\* the translator of query_translator.py is SupplyChainDB, whose query()
\* has no limit or offset parameter and returns no 'total_count'.
translate_query(db, user_query, limit, offset, answer) ==
  query(db, user_query, answer)

\* ------------------------------------------------------------ orchestrator
NoPagination ==
  [present |-> FALSE, limit |-> 0, offset |-> 0, total |-> 0,
   has_more |-> FALSE]

\* The response text: its kind, the str(e) of an error, and for a page of
\* rows the count in "Found {n} records" and the bulleted sample rows.
Text(kind, detail, found, samples) ==
  [kind |-> kind, detail |-> detail, found |-> found, samples |-> samples]

\* SupplyChainAgent._dict_to_bullets: the fields whose value is not None.
_dict_to_bullets(data) == SelectSeq(data, LAMBDA kv : kv[2] # Null)

\* SupplyChainAgent._format_response
_format_response(results) ==
  IF results = <<>>
  THEN Text("No matching records found.", "", 0, <<>>)
  ELSE LET samples == IF Len(results) > 3 THEN SubSeq(results, 1, 3)
                      ELSE results
       IN Text("Found", "", Len(results),
               [i \in 1..Len(samples) |-> _dict_to_bullets(samples[i])])

\* An except clause that does not catch the TypeError of len(None).
ExceptValueError(e) ==
  IF e = LenOfNone
  THEN [raised |-> TRUE, status |-> "none", response |-> Text("", "", 0, <<>>),
        hasQuery |-> FALSE, query_used |-> <<>>, pagination |-> NoPagination]
  ELSE [raised |-> FALSE, status |-> "error",
        response |-> Text("Error processing query", e, 0, <<>>),
        hasQuery |-> FALSE, query_used |-> <<>>, pagination |-> NoPagination]

\* handle_query's `except Exception as e` clause.
ExceptException(e) ==
  [raised |-> FALSE, status |-> "error",
   response |-> Text("Error processing query", e, 0, <<>>),
   hasQuery |-> FALSE, query_used |-> <<>>, pagination |-> NoPagination]

\* A default of 0 for a translation that carries no 'total_count'.
total_count_zero(t) == 0

\* translation.get('total_count', len(translation['results'])) on what
\* query() returns, which never has the key (results is not None here).
total_count(t) == Len(t.results)

\* The response handle_query builds in its step 4.
Success(t, limit, offset) ==
  [raised |-> FALSE, status |-> "success",
   response |-> _format_response(t.results),
   hasQuery |-> TRUE, query_used |-> t.query,
   pagination |-> [present |-> TRUE, limit |-> limit, offset |-> offset,
                   total |-> total_count(t),
                   has_more |-> offset + Len(t.results) < total_count(t)]]

\* The response of handle_query's step 1 when the gate rejects the text.
Invalid ==
  [raised |-> FALSE, status |-> "invalid",
   response |-> Text("Your query doesn't seem related to supply chain data.",
                     "", 0, <<>>),
   hasQuery |-> FALSE, query_used |-> <<>>, pagination |-> NoPagination]

NoTranslation ==
  [error |-> "", query |-> <<>>, results |-> <<>>, isNone |-> TRUE]

\* handle_query's steps 3 and 4 on what translate_query returned.
handle_translation(q, limit, offset) ==
  [resp |-> IF q.translation.isNone
            THEN ExceptException(LenOfNone)
            ELSE Success(q.translation, limit, offset),
   translation |-> q.translation, store |-> q.store,
   calls |-> q.calls, unclosed |-> q.unclosed, prompt |-> q.prompt]

\* SupplyChainAgent.handle_query: the response, and what the call did.
handle_query(db, user_query, limit, offset, answer) ==
  IF ~InDomainOf[user_query]
  THEN [resp |-> Invalid, translation |-> NoTranslation, store |-> db,
        calls |-> <<>>, unclosed |-> 0, prompt |-> <<>>]
  ELSE handle_translation(
         translate_query(db, user_query, limit, offset, answer),
         limit, offset)

NoRequest == [text |-> <<>>, limit |-> 0, offset |-> 0]
NoResponse ==
  [raised |-> FALSE, status |-> "none", response |-> Text("", "", 0, <<>>),
   hasQuery |-> FALSE, query_used |-> <<>>, pagination |-> NoPagination]

\* ----------------------------------------------------------------- actions
\* Base.metadata.create_all in DatabaseManager.__init__: a missing table is
\* created, empty, with the model's columns; an existing one is left alone.
create_all(db) ==
  IF db.exists THEN db ELSE [exists |-> TRUE, extra |-> FALSE, n |-> 0]

\* The state SupplyChainAgent.__init__ leaves: no request handled yet.
Constructed(db) ==
  /\ store = create_all(db)
  /\ req = NoRequest
  /\ reply = NoReply
  /\ translation = NoTranslation
  /\ resp = NoResponse
  /\ calls = <<>>
  /\ unclosed = 0
  /\ before = create_all(db)
  /\ prompt = <<>>
  /\ first = <<>>

Init ==
  \E n \in 0..MaxRows : Constructed([exists |-> TRUE, extra |-> FALSE, n |-> n])

Reached(seq, x) == \E i \in 1..Len(seq) : seq[i] = x

\* One call of agent.handle_query(text, limit, offset), in which ollama.chat,
\* if it is reached, does `answer`.
Handle(text, limit, offset, answer) ==
  \E h \in {handle_query(store, text, limit, offset, answer)} :
  /\ store' = h.store
  /\ req' = [text |-> text, limit |-> limit, offset |-> offset]
  /\ reply' = IF Reached(h.calls, "chat") THEN answer ELSE NoReply
  /\ translation' = h.translation
  /\ resp' = h.resp
  /\ calls' = h.calls
  /\ unclosed' = h.unclosed
  /\ before' = store
  /\ prompt' = h.prompt

\* A caller submits a request.
Submit ==
  \E text \in Texts, limit \in 1..MaxLimit, offset \in 0..MaxOffset :
    \E answer \in Replies(limit, offset) :
      /\ Handle(text, limit, offset, answer)
      /\ first' = <<>>

\* The page reruns with the query, limit and offset unchanged and calls
\* handle_query with them again.  Here ollama.chat answers as a function of
\* its prompt: the prompt of the run before gets the answer of the run before
\* (Submit repeats a request with any answer).
Rerun ==
  /\ req # NoRequest
  /\ \E answer \in Replies(req.limit, req.offset) :
       /\ Handle(req.text, req.limit, req.offset, answer)
       /\ (prompt # <<>> /\ prompt' = prompt) => answer = reply
       /\ first' = << [resp |-> resp, translation |-> translation,
                       before |-> before] >>

\* The process starts again and constructs the agent anew.
Restart ==
  /\ req # NoRequest
  /\ store' = create_all(store)
  /\ req' = NoRequest
  /\ reply' = NoReply
  /\ translation' = NoTranslation
  /\ resp' = NoResponse
  /\ calls' = <<>>
  /\ unclosed' = 0
  /\ before' = create_all(store)
  /\ prompt' = <<>>
  /\ first' = <<>>

Next == Submit \/ Rerun \/ Restart

Spec == Init /\ [][Next]_vars

\* ------------------------------------------------------------------ claims
\* A request has been handled since the agent was constructed.
Handled == req # NoRequest

\* The text holds a domain keyword in some letter case (stated position by
\* position, apart from _validate_query).
HasKeyword(text) ==
  \E k \in supply_chain_keywords :
    \E i \in 1..Len(text) :
      /\ i + Len(k) - 1 <= Len(text)
      /\ \A j \in 1..Len(k) : LowerChar(text[i + j - 1]) = k[j]

WordChars ==
  {UpperChars[k] : k \in 1..26} \cup {LowerChars[k] : k \in 1..26}
    \cup {Digits[d] : d \in 1..10} \cup {"_"}

\* w occurs in text in some letter case as a whole word: not inside a longer
\* identifier, and followed by any other character or by the end of the text.
HasWord(text, w) ==
  \E i \in 1..Len(text) :
    /\ i + Len(w) - 1 <= Len(text)
    /\ \A j \in 1..Len(w) : LowerChar(text[i + j - 1]) = w[j]
    /\ i > 1 => text[i - 1] \notin WordChars
    /\ i + Len(w) <= Len(text) => text[i + Len(w)] \notin WordChars

HasText(text, f) ==
  \E i \in 1..Len(text) :
    /\ i + Len(f) - 1 <= Len(text)
    /\ \A j \in 1..Len(f) : text[i + j - 1] = f[j]

DestructiveVerbs ==
  { <<"d","r","o","p">>, <<"d","e","l","e","t","e">>,
    <<"u","p","d","a","t","e">>, <<"i","n","s","e","r","t">> }

\* The text holds a statement separator, a comment marker or a destructive
\* verb as a whole word.
Unsafe(text) ==
  \/ \E f \in { <<";">>, <<"-","-">>, <<"/","*">>, <<"*","/">> } :
       HasText(text, f)
  \/ \E w \in DestructiveVerbs : HasWord(text, w)

\* The generator was called in the last request and answered with a text.
Answered == Handled /\ Reached(calls, "chat") /\ reply.ok

\* The rows the last request got from the store.
Rows == translation.results

\* The last request succeeded on the statement that asks for all rows with
\* the request's own page clause.
PagedSuccess ==
  /\ Handled
  /\ resp.status = "success"
  /\ translation.query = SelectPage(req.limit, req.offset)

\* C1: a request whose text holds no domain keyword gets the Invalid
\* response; the inference service and the store are not reached and no SQL
\* text is produced or returned.
C1_NoKeywordIsInvalid ==
  (Handled /\ ~HasKeyword(req.text)) =>
    /\ ~resp.raised
    /\ resp.status = "invalid"
    /\ calls = <<>>
    /\ translation = NoTranslation
    /\ ~resp.hasQuery /\ resp.query_used = <<>>
    /\ store = before

C1_Witness ==
  /\ req.text = DrawMeAPicture
  /\ resp.status = "invalid"
  /\ calls = <<>>

\* C2 (as claimed): whenever the generator's text holds `;`, `--`, `/*`, `*/`
\* or a destructive verb as a whole word, the response is an Error of the
\* safety check and cursor.execute is not called.
C2_UnsafeNeverExecuted ==
  (Answered /\ Unsafe(reply.content)) =>
    /\ resp.status = "error"
    /\ translation.error = SafetyCheckFailed
    /\ ~Reached(calls, "execute")

\* C3 (as claimed): every Success response carries at most limit rows and
\* hasMore = (offset + rows < total).
C3_PageWithinLimit ==
  (Handled /\ resp.status = "success") =>
    /\ Len(Rows) <= req.limit
    /\ resp.pagination.has_more
         = (req.offset + Len(Rows) < resp.pagination.total)

\* C4 (as claimed): on a walk over a table of N rows (offset 0, limit,
\* 2*limit, ... while rows remain) every page reports total = N, holds the
\* next limit rows or the rest, and has hasMore true exactly when rows remain
\* after it.  Stated for a generator that embeds the page clause.
C4_PagingWalk ==
  (/\ PagedSuccess
   /\ req.offset % req.limit = 0
   /\ req.offset = 0 \/ req.offset < before.n) =>
    /\ resp.pagination.total = before.n
    /\ Len(Rows) = Min(req.limit,
                        IF before.n > req.offset THEN before.n - req.offset
                        ELSE 0)
    /\ resp.pagination.has_more = (req.offset + req.limit < before.n)

\* C5: handle_query returns exactly one response and never raises; the
\* response is Invalid exactly when the keyword gate rejects the text, and
\* an Error carrying a message exactly when a later stage fails.
C5_Total ==
  Handled =>
    /\ ~resp.raised
    /\ resp.status \in {"success", "invalid", "error"}
    /\ (resp.status = "invalid") = ~HasKeyword(req.text)
    /\ (resp.status = "error") = (translation.error # "")
    /\ resp.status = "error" => resp.response.detail # ""

C5_Witness ==
  /\ resp.status = "error"
  /\ translation.error = NoSuchTable
  /\ calls = <<"schema">>

C7_ReadOnly == Handled => store = before

\* C8 (as claimed): a request that ends in Invalid or Error leaves the store
\* as it found it and leaves no connection it opened unclosed.
C8_FailureLeavesNoTrace ==
  (Handled /\ resp.status \in {"invalid", "error"}) =>
    /\ store = before
    /\ unclosed = 0

\* C9 (as claimed): the total of a Success is the number of all matching
\* rows, whatever the page: total >= rows + offset when offset < total, and
\* no rows otherwise.  Stated for a generator that embeds the page clause.
C9_TotalCoversWindow ==
  PagedSuccess =>
    /\ resp.pagination.total = before.n
    /\ req.offset < resp.pagination.total
         => resp.pagination.total >= Len(Rows) + req.offset
    /\ req.offset >= resp.pagination.total => Rows = <<>>

Stages == <<"schema", "chat", "validate", "execute">>

\* The response carries formatted rows or pagination.
CarriesRows ==
  \/ resp.response.kind \in {"Found", "No matching records found."}
  \/ resp.response.samples # <<>>
  \/ resp.pagination.present
  \/ resp.hasQuery

\* C11: within one request the stages run at most once each and in the
\* order schema, generation, safety check, execution, formatting; the store
\* executes the generated statement only after the safety check passed on
\* that statement; the inference service is called at most once; and after
\* the first failure no later stage runs and no rows reach the caller.
C11_StagesInOrder ==
  Handled =>
    /\ \E k \in 0..Len(Stages) : calls = SubSeq(Stages, 1, k)
    /\ Reached(calls, "execute") =>
          (reply.ok /\ _validate_sql(PostProcess(reply.content)))
    /\ Reached(calls, "validate") => reply.ok
    /\ ~HasKeyword(req.text) => calls = <<>>
    /\ translation.error = NoSuchTable => calls = SubSeq(Stages, 1, 1)
    /\ translation.error = ChatFailed => calls = SubSeq(Stages, 1, 2)
    /\ translation.error = SafetyCheckFailed => calls = SubSeq(Stages, 1, 3)
    /\ resp.status # "success" => (~CarriesRows /\ Rows = <<>>)
    /\ CarriesRows => (calls = Stages /\ translation.error = "")

C11_Witness ==
  /\ Answered
  /\ resp.status = "error"
  /\ translation.error = SafetyCheckFailed
  /\ calls = <<"schema", "chat", "validate">>
  /\ ~CarriesRows

\* C12 (as claimed): the safety validator accepts every statement that holds
\* no `;`, `--`, `/*` or `*/` and in which drop, delete, update and insert
\* do not occur as whole words, such as one that reads a column named
\* last_update.
C12_AcceptsIdentifiers ==
  (/\ Answered
   /\ Reached(calls, "validate")
   /\ ~Unsafe(PostProcess(reply.content))) =>
    /\ translation.error # SafetyCheckFailed
    /\ Reached(calls, "execute")

\* The text with surrounding whitespace removed and then one trailing `;`
\* removed, if there is one.
TrimOne(text) ==
  CHOOSE r \in
    { IF t # <<>> /\ t[Len(t)] = ";" THEN SubSeq(t, 1, Len(t) - 1) ELSE t :
      t \in {strip(text, Whitespace)} } : TRUE

\* C13 (as claimed): the statement handed to the safety validator is the
\* generator's response with surrounding whitespace and at most one trailing
\* `;` removed, so that leading and further trailing semicolons are rejected
\* by the validator; an empty response fails before the safety check and
\* without the store executing anything.
C13_SingleTerminator ==
  Answered =>
    /\ Reached(calls, "validate") =>
          PostProcess(reply.content) = TrimOne(reply.content)
    /\ HasText(TrimOne(reply.content), SEMI) =>
          (translation.error = SafetyCheckFailed /\ ~Reached(calls, "execute"))
    /\ strip(reply.content, Whitespace) = <<>> =>
          /\ resp.status = "error"
          /\ ~Reached(calls, "validate")
          /\ ~Reached(calls, "execute")

====
